---- MODULE Spec2Model ----
(***************************************************************************)
(* FunctionAny<Sigs...>: a std::variant over Function<Sig> for every       *)
(* distinct declared signature, with tagged construction, conversion,      *)
(* assignment, HoldsSig, operator bool and operator().                     *)
(*                                                                         *)
(* A Function<Sig> value is the record [sig, target]; target = NoTarget    *)
(* is the empty adapter, target = k > 0 is the k-th callable written for   *)
(* that signature.  The member `func` of a container is the Function<Sig>  *)
(* its variant currently holds: a std::variant always holds one of its     *)
(* alternatives, so `func` always has a signature.                         *)
(***************************************************************************)
EXTENDS Integers, Sequences, FiniteSets, TLC

\* number of distinct callables available per signature
MaxTargets == 2

NoTarget == 0

Targets == 1..MaxTargets

(***************************************************************************)
(* Signatures RT(Args...) used by the containers below.                    *)
(***************************************************************************)
SigA == [rt |-> "void", args |-> <<"int", "int">>]

SigB == [rt |-> "void", args |-> <<>>]

SigC == [rt |-> "int", args |-> <<"int">>]

SigD == [rt |-> "int&", args |-> <<"str">>]

AllSigs == {SigA, SigB, SigC, SigD}

\* the argument shapes calls are made with
ArgShapes == {<<>>, <<"int", "int">>, <<"float", "int">>, <<"int">>, <<"str">>}

(***************************************************************************)
(* The container types in use, by the template arguments of each, and the  *)
(* two variables a program holds containers in.                            *)
(* X: FunctionAny<void(int,int), void()>             (funcList of main)    *)
(* Y: FunctionAny<void(int,int), void(), int(int)>                         *)
(* Z: FunctionAny<int(int), int&(str), int(int)>     (str a string type)   *)
(***************************************************************************)
Types == {"X", "Y", "Z"}

Objects == {"a", "b"}

Sigs(T) ==
    CASE T = "X" -> <<SigA, SigB>>
      [] T = "Y" -> <<SigA, SigB, SigC>>
      [] OTHER -> <<SigC, SigD, SigC>>

(***************************************************************************)
(* type_list utilities                                                     *)
(***************************************************************************)
contains(list, s) == \E i \in DOMAIN list : list[i] = s

RECURSIVE unique(_)
unique(list) ==
    IF list = <<>> THEN <<>>
    ELSE LET front == unique(SubSeq(list, 1, Len(list) - 1))
             last == list[Len(list)]
         IN IF contains(front, last) THEN front ELSE Append(front, last)

is_subset(a, b) == \A i \in DOMAIN a : contains(b, a[i])

append(list, t) == Append(list, t)

\* std::is_convertible between the argument types used here
is_convertible(from, to) ==
    \/ from = to
    \/ from \in {"int", "float"} /\ to \in {"int", "float"}

sig_rt_t(sig) == sig.rt

sig_args_t(sig) == sig.args

sig_convertible_args_v(sig, args) ==
    /\ Len(args) = Len(sig.args)
    /\ \A i \in DOMAIN args : is_convertible(args[i], sig.args[i])

contains_convertible(argLists, args) ==
    \E i \in DOMAIN argLists :
        /\ Len(args) = Len(argLists[i])
        /\ \A j \in DOMAIN args : is_convertible(args[j], argLists[i][j])

(***************************************************************************)
(* FunctionAny's type members                                              *)
(***************************************************************************)
is_lvalue_reference_v(rt) == rt = "int&"

add_pointer_remove_reference(rt) == IF rt = "int&" THEN "int*" ELSE rt

TO_RETURN_TYPE(rt) ==
    IF is_lvalue_reference_v(rt) THEN add_pointer_remove_reference(rt)
    ELSE IF rt = "void" THEN "VOID" ELSE rt

SigsUniqueOf == [T \in Types |-> unique(Sigs(T))]

SIGS_UNIQUE(T) == SigsUniqueOf[T]

\* apply<f_traits::sig_rt_t, TO_RETURN_TYPE>
apply_rt(list) == [i \in DOMAIN list |-> TO_RETURN_TYPE(sig_rt_t(list[i]))]

\* apply<f_traits::sig_args_t>
apply_args(list) == [i \in DOMAIN list |-> sig_args_t(list[i])]

RTS_UNIQUE(T) == unique(append(apply_rt(SIGS_UNIQUE(T)), "NO_CALL"))

ArgsUniqueOf == [T \in Types |-> unique(apply_args(SIGS_UNIQUE(T)))]

ARGS_UNIQUE(T) == ArgsUniqueOf[T]

(***************************************************************************)
(* Function<Sig>                                                           *)
(***************************************************************************)
Function(sig, target) == [sig |-> sig, target |-> target]

FunctionDefault(sig) == Function(sig, NoTarget)

FunctionBool(f) == f.target # NoTarget

\* the state a Function is left in after it was moved from
FunctionMovedFrom(f) == Function(f.sig, NoTarget)

\* a variant member's payload is <<kind, n>>; VOID and NO_CALL carry none
NoPayload == <<"none", 0>>

\* outcomes of invoking an empty Function (the call has no target)
EmptyCallOutcomes == {"error", "returns"}

(***************************************************************************)
(* Function<Sig>::operator(): invokes the target.  A void target returns   *)
(* nothing, the k-th int target returns the value k, the k-th int& target  *)
(* returns a reference to the k-th storage location.  Invoking an empty    *)
(* Function invokes no target; the call either does not complete or        *)
(* completes with an indeterminate value.                                  *)
(***************************************************************************)
FunctionCall(f, args, outcome) ==
    IF FunctionBool(f)
    THEN [completed |-> TRUE, invoked |-> <<f>>,
          ret |-> IF f.sig.rt = "void" THEN NoPayload
                  ELSE IF is_lvalue_reference_v(f.sig.rt) THEN <<"ref", f.target>>
                  ELSE <<"val", f.target>>]
    ELSE [completed |-> outcome = "returns", invoked |-> <<>>,
          ret |-> IF f.sig.rt = "void" THEN NoPayload
                  ELSE IF is_lvalue_reference_v(f.sig.rt) THEN <<"ref", NoTarget>>
                  ELSE <<"val", NoTarget>>]

(***************************************************************************)
(* FunctionAny members.  A call's outcome is [result, invoked]: result is  *)
(* the RT_VARIANT returned, [member, payload], and invoked the sequence    *)
(* of targets that ran.  member "ERROR" stands for a call that did not     *)
(* return an RT_VARIANT at all.                                            *)
(***************************************************************************)
RT_VARIANT(member, payload) == [member |-> member, payload |-> payload]

VariantDefault(T) == FunctionDefault(SIGS_UNIQUE(T)[1])

HoldsSig(f, sigs) == \E s \in sigs : f.sig = s

OperatorBool(f) == FunctionBool(f)

\* `*this != rhs`: FunctionAny declares no comparison, both operands
\* convert through operator bool
NotEqual(lhs, rhs) == OperatorBool(lhs) # OperatorBool(rhs)

\* InvokeFunction with the reference branch missing: the referent is copied
InvokeFunction_CopiesReferent(f, args, outcome) ==
    LET RT == sig_rt_t(f.sig)
        c == FunctionCall(f, args, outcome)
    IN IF ~c.completed
       THEN [result |-> RT_VARIANT("ERROR", NoPayload), invoked |-> c.invoked]
       ELSE IF RT # "void"
       THEN [result |-> RT_VARIANT("int", <<"val", c.ret[2]>>), invoked |-> c.invoked]
       ELSE [result |-> RT_VARIANT("VOID", NoPayload), invoked |-> c.invoked]

InvokeFunction(f, args, outcome) ==
    LET RT == sig_rt_t(f.sig)
        c == FunctionCall(f, args, outcome)
    IN IF ~c.completed
       THEN [result |-> RT_VARIANT("ERROR", NoPayload), invoked |-> c.invoked]
       ELSE IF RT # "void"
       THEN IF ~is_lvalue_reference_v(RT)
            THEN [result |-> RT_VARIANT(RT, c.ret), invoked |-> c.invoked]
            ELSE [result |-> RT_VARIANT(add_pointer_remove_reference(RT),
                                        <<"addr", c.ret[2]>>),
                  invoked |-> c.invoked]
       ELSE [result |-> RT_VARIANT("VOID", NoPayload), invoked |-> c.invoked]

\* operator() matching on the number of arguments only
OperatorCall_ArityOnly(f, args, outcome) ==
    IF Len(args) = Len(f.sig.args)
    THEN InvokeFunction(f, args, outcome)
    ELSE [result |-> RT_VARIANT("NO_CALL", NoPayload), invoked |-> <<>>]

OperatorCall(f, args, outcome) ==
    IF sig_convertible_args_v(f.sig, args)
    THEN InvokeFunction(f, args, outcome)
    ELSE [result |-> RT_VARIANT("NO_CALL", NoPayload), invoked |-> <<>>]

\* static_assert of operator(): some declared parameter list accepts args
BuildsCall(T, args) == contains_convertible(ARGS_UNIQUE(T), args)

\* static_assert of the tagged constructor and of operator=(Function<Sig>)
BuildsTagged(T, sig) == contains(SIGS_UNIQUE(T), sig)

\* std::visit instantiates the assigning lambda, and its static_assert,
\* for every alternative of rhs.func
BuildsAssign(TDst, TSrc) ==
    \A i \in DOMAIN SIGS_UNIQUE(TSrc) : contains(SIGS_UNIQUE(TDst), SIGS_UNIQUE(TSrc)[i])

\* An assignment's outcome: the new values of both operands, whether the
\* guard skipped the mutation.
OperatorAssignCopy(lhs, rhs) ==
    IF NotEqual(lhs, rhs)
    THEN [dst |-> rhs, src |-> rhs, skipped |-> FALSE]
    ELSE [dst |-> lhs, src |-> rhs, skipped |-> TRUE]

OperatorAssignMove(lhs, rhs) ==
    IF NotEqual(lhs, rhs)
    THEN [dst |-> rhs, src |-> FunctionMovedFrom(rhs), skipped |-> FALSE]
    ELSE [dst |-> lhs, src |-> rhs, skipped |-> TRUE]

\* the implicitly declared copy/move of FunctionAny<Sigs...> itself:
\* memberwise on the variant, no guard
ImplicitAssign(lhs, rhs, mode) ==
    [dst |-> rhs,
     src |-> IF mode = "move" THEN FunctionMovedFrom(rhs) ELSE rhs,
     skipped |-> FALSE]

\* overload resolution: the non-template implicit member wins when both
\* operands have the same type, the member template is used otherwise
SameType(TDst, TSrc) == Sigs(TDst) = Sigs(TSrc)

AssignOutcome(TDst, TSrc, lhs, rhs, mode) ==
    IF SameType(TDst, TSrc) THEN ImplicitAssign(lhs, rhs, mode)
    ELSE IF mode = "move" THEN OperatorAssignMove(lhs, rhs)
    ELSE OperatorAssignCopy(lhs, rhs)

\* operator=(Function<Sig>) guarded the way the container assignments are
OperatorAssignFunction_Guarded(lhs, rhs) == IF NotEqual(lhs, rhs) THEN rhs ELSE lhs

\* operator=(const Function<Sig>&) / operator=(Function<Sig>&&)
OperatorAssignFunction(lhs, rhs) == rhs

VARIABLES type, func, lastOp

vars == <<type, func, lastOp>>

(***************************************************************************)
(* State: type[o] and func[o] are the type and the variant member of the   *)
(* container held in variable o; lastOp records the most recent operation, *)
(* its operands, their values before it and its outcome.                   *)
(***************************************************************************)
NoOp ==
    [op |-> "none", dst |-> "-", src |-> "-", mode |-> "-", sig |-> SigA,
     target |-> NoTarget, args |-> <<>>, built |-> TRUE, skipped |-> FALSE,
     result |-> RT_VARIANT("-", NoPayload), invoked |-> <<>>,
     dstType |-> "X", srcType |-> "X",
     preDst |-> FunctionDefault(SigA), preSrc |-> FunctionDefault(SigA)]

Init ==
    /\ type = [o \in Objects |-> "X"]
    /\ func = [o \in Objects |-> VariantDefault("X")]
    /\ lastOp = NoOp

\* FunctionAny() = default
DefaultConstruct(o, T) ==
    /\ type' = [type EXCEPT ![o] = T]
    /\ func' = [func EXCEPT ![o] = VariantDefault(T)]
    /\ lastOp' = [NoOp EXCEPT !.op = "default", !.dst = o, !.dstType = T,
                              !.preDst = VariantDefault(T)]

\* FunctionAny(std::in_place_type_t<Sig>, Args&&...) over a real callable
TaggedConstruct(o, T, sig, t) ==
    LET ok == BuildsTagged(T, sig)
    IN /\ type' = IF ok THEN [type EXCEPT ![o] = T] ELSE type
       /\ func' = IF ok THEN [func EXCEPT ![o] = Function(sig, t)] ELSE func
       /\ lastOp' = [NoOp EXCEPT !.op = "tagged", !.dst = o, !.dstType = T, !.sig = sig,
                                 !.target = t, !.built = ok, !.preDst = VariantDefault(T)]

\* FunctionAny(const FunctionAny<SigsT...>&) / FunctionAny(FunctionAny<SigsT...>&&):
\* the new object's func is default-initialised, then *this = rhs
ConstructFrom(dst, T, src, mode) ==
    /\ dst # src
    /\ LET out == AssignOutcome(T, type[src], VariantDefault(T), func[src], mode)
           ok == BuildsAssign(T, type[src])
       IN /\ type' = IF ok THEN [type EXCEPT ![dst] = T] ELSE type
          /\ func' = IF ok
                     THEN [func EXCEPT ![dst] = out.dst, ![src] = out.src]
                     ELSE func
          /\ lastOp' = [NoOp EXCEPT !.op = "construct_from", !.dst = dst, !.src = src,
                                    !.dstType = T, !.srcType = type[src],
                                    !.mode = mode, !.built = ok,
                                    !.skipped = ok /\ out.skipped,
                                    !.preDst = VariantDefault(T),
                                    !.preSrc = func[src]]

\* operator=(const FunctionAny<SigsT...>&) / operator=(FunctionAny<SigsT...>&&)
Assign(dst, src, mode) ==
    /\ mode = "move" => dst # src
    /\ LET out == AssignOutcome(type[dst], type[src], func[dst], func[src], mode)
           ok == BuildsAssign(type[dst], type[src])
       IN /\ type' = type
          /\ func' = IF ok
                     THEN [func EXCEPT ![src] = out.src, ![dst] = out.dst]
                     ELSE func
          /\ lastOp' = [NoOp EXCEPT !.op = "assign", !.dst = dst, !.src = src,
                                    !.dstType = type[dst], !.srcType = type[src],
                                    !.mode = mode, !.built = ok,
                                    !.skipped = ok /\ out.skipped,
                                    !.preDst = func[dst],
                                    !.preSrc = func[src]]

\* operator=(const Function<Sig>&) / operator=(Function<Sig>&&); the
\* Function assigned may be empty
AssignFunction(o, sig, t) ==
    LET ok == BuildsTagged(type[o], sig)
    IN /\ type' = type
       /\ func' = IF ok
                  THEN [func EXCEPT ![o] = OperatorAssignFunction(func[o], Function(sig, t))]
                  ELSE func
       /\ lastOp' = [NoOp EXCEPT !.op = "assign_function", !.dst = o, !.sig = sig,
                                 !.target = t, !.dstType = type[o], !.built = ok,
                                 !.preDst = func[o]]

\* operator()(Args&&...) const
Call(o, args) ==
    \E outcome \in EmptyCallOutcomes :
        LET ok == BuildsCall(type[o], args)
            out == OperatorCall(func[o], args, outcome)
        IN /\ type' = type
           /\ func' = func
           /\ lastOp' = [NoOp EXCEPT !.op = "call", !.dst = o, !.args = args,
                                     !.dstType = type[o], !.built = ok,
                                     !.result = IF ok THEN out.result ELSE NoOp.result,
                                     !.invoked = IF ok THEN out.invoked ELSE <<>>,
                                     !.preDst = func[o]]

Next ==
    \/ \E o \in Objects, T \in Types : DefaultConstruct(o, T)
    \/ \E o \in Objects, T \in Types, sig \in AllSigs, t \in Targets :
          TaggedConstruct(o, T, sig, t)
    \/ \E dst \in Objects, T \in Types, src \in Objects, mode \in {"copy", "move"} :
          ConstructFrom(dst, T, src, mode)
    \/ \E dst \in Objects, src \in Objects, mode \in {"copy", "move"} :
          Assign(dst, src, mode)
    \/ \E o \in Objects, sig \in AllSigs, t \in {NoTarget} \cup Targets :
          AssignFunction(o, sig, t)
    \/ \E o \in Objects, args \in ArgShapes : Call(o, args)

Spec == Init /\ [][Next]_vars

(***************************************************************************)
(* Properties                                                              *)
(***************************************************************************)
NO_CALL == RT_VARIANT("NO_CALL", NoPayload)

VOID == RT_VARIANT("VOID", NoPayload)

\* the last operation was a call that compiled
CallDone == lastOp.op = "call" /\ lastOp.built

\* the last operation was a container-to-container construction or assignment
ConversionDone == lastOp.op \in {"assign", "construct_from"}

\* params is an arity-exact, position-wise convertible target for args
AcceptsArgs(params, args) ==
    /\ Len(params) = Len(args)
    /\ \A i \in 1..Len(args) : is_convertible(args[i], params[i])

DeclaredSet(T) == {Sigs(T)[i] : i \in DOMAIN Sigs(T)}

\* C1: a valid container called with arguments its active signature's
\* parameter list does not accept (arity-exact, position-wise convertible)
\* invokes nothing and returns the NO_CALL member.
C1_MismatchedArgsNoCall ==
    (CallDone /\ OperatorBool(lastOp.preDst)
              /\ ~AcceptsArgs(lastOp.preDst.sig.args, lastOp.args))
        => (lastOp.result = NO_CALL /\ lastOp.invoked = <<>>)

\* a call of matching arity whose argument does not convert, on a valid container
C1_Witness ==
    /\ CallDone /\ OperatorBool(lastOp.preDst)
    /\ Len(lastOp.args) = Len(lastOp.preDst.sig.args)
    /\ ~AcceptsArgs(lastOp.preDst.sig.args, lastOp.args)
    /\ lastOp.result = NO_CALL

\* C2: a valid container called with arguments convertible to its active
\* signature S invokes the stored callable exactly once and returns the
\* normalized return of S, never NO_CALL: VOID for void, a pointer to the
\* referenced storage for an lvalue reference, a value of the exact return
\* type otherwise.
C2_MatchingArgsInvoke ==
    (CallDone /\ OperatorBool(lastOp.preDst)
              /\ AcceptsArgs(lastOp.preDst.sig.args, lastOp.args))
        => LET f == lastOp.preDst
           IN /\ lastOp.invoked = <<f>>
              /\ lastOp.result # NO_CALL
              /\ contains(RTS_UNIQUE(lastOp.dstType), lastOp.result.member)
              /\ lastOp.result.member = TO_RETURN_TYPE(f.sig.rt)
              /\ f.sig.rt = "void" => lastOp.result = VOID
              /\ f.sig.rt = "int&" =>
                    lastOp.result = RT_VARIANT("int*", <<"addr", f.target>>)
              /\ f.sig.rt = "int" =>
                    lastOp.result = RT_VARIANT("int", <<"val", f.target>>)

\* a reference-returning callable was invoked and its referent's address returned
C2_Witness ==
    /\ CallDone /\ OperatorBool(lastOp.preDst)
    /\ lastOp.preDst.sig.rt = "int&"
    /\ lastOp.invoked = <<lastOp.preDst>>
    /\ lastOp.result.member = "int*"

\* C3: calling a container that holds no valid callable returns NO_CALL and
\* invokes nothing, whatever accepted arguments it is called with.
C3_EmptyCallNoCall ==
    (CallDone /\ ~OperatorBool(lastOp.preDst))
        => (lastOp.result = NO_CALL /\ lastOp.invoked = <<>>)

\* C4: after dst = src, with the source's declared set a subset of the
\* destination's, the destination holds what the source held, whatever the
\* destination held before: the source's callable under the source's
\* signature when the source was valid, no callable when it was not.
C4_AssignReplaces ==
    (lastOp.op = "assign"
        /\ DeclaredSet(lastOp.srcType) \subseteq DeclaredSet(lastOp.dstType))
        => /\ lastOp.built
           /\ OperatorBool(lastOp.preSrc) => func[lastOp.dst] = lastOp.preSrc
           /\ ~OperatorBool(lastOp.preSrc) => ~OperatorBool(func[lastOp.dst])

\* C5: the equality check that precedes the mutation of an assignment never
\* takes two containers holding different callables for equal, and assigning
\* from a container in the same state leaves the destination's active branch
\* and validity as they were.
C5_SkipOnlySameCallable ==
    (lastOp.op = "assign" /\ lastOp.built)
        => /\ (OperatorBool(lastOp.preDst) /\ OperatorBool(lastOp.preSrc)
                  /\ lastOp.preDst # lastOp.preSrc) => ~lastOp.skipped
           /\ lastOp.preDst = lastOp.preSrc => func[lastOp.dst] = lastOp.preDst

\* C6: a source whose declared set overlaps the destination's without being
\* a subset of it is accepted at build time, and the conversion succeeds when
\* the source's active signature is in the destination's set; only a source
\* whose declared set is disjoint from the destination's is rejected at
\* build time.
C6_OverlapDecidedAtRuntime ==
    ConversionDone
        => LET S == DeclaredSet(lastOp.srcType)
               D == DeclaredSet(lastOp.dstType)
           IN /\ (~(S \subseteq D) /\ S \cap D # {})
                    => /\ lastOp.built
                       /\ (lastOp.preSrc.sig \in D /\ OperatorBool(lastOp.preSrc))
                             => HoldsSig(func[lastOp.dst], {lastOp.preSrc.sig})
              /\ S \cap D = {} => ~lastOp.built

\* C7: converting (constructing or assigning) from a container whose
\* declared set is a subset of the destination's yields a destination that
\* is valid exactly when the source was and, the source being valid, holds
\* signature S exactly when the source did, for every S of the source.
C7_WideningPreserves ==
    (ConversionDone /\ DeclaredSet(lastOp.srcType) \subseteq DeclaredSet(lastOp.dstType))
        => /\ lastOp.built
           /\ OperatorBool(func[lastOp.dst]) = OperatorBool(lastOp.preSrc)
           /\ OperatorBool(lastOp.preSrc)
                 => \A S \in DeclaredSet(lastOp.srcType) :
                       HoldsSig(func[lastOp.dst], {S}) = HoldsSig(lastOp.preSrc, {S})

\* C8: a default-constructed container is not valid and holds none of its
\* declared signatures, the first included; and a container is valid exactly
\* when it holds a declared signature whose adapter is non-empty.
C8_DefaultHoldsNothing ==
    /\ lastOp.op = "default"
          => /\ ~OperatorBool(func[lastOp.dst])
             /\ \A S \in DeclaredSet(lastOp.dstType) : ~HoldsSig(func[lastOp.dst], {S})
    /\ \A o \in Objects :
          OperatorBool(func[o])
              <=> (HoldsSig(func[o], DeclaredSet(type[o])) /\ func[o].target \in Targets)

\* C9: a move (construction or assignment) leaves the source not valid and
\* the destination holding the callable the source held; no callable is held
\* by both afterwards.
C9_MoveTransfers ==
    (ConversionDone /\ lastOp.mode = "move" /\ lastOp.built)
        => /\ ~OperatorBool(func[lastOp.src])
           /\ OperatorBool(lastOp.preSrc) => func[lastOp.dst] = lastOp.preSrc
           /\ OperatorBool(func[lastOp.dst]) => func[lastOp.src] # func[lastOp.dst]

====
